---- MODULE Spec2Model ----
(***************************************************************************)
(* State-machine model of the CosplayAI frontend generation lifecycle:     *)
(* App.tsx (GenerationState and its handlers), PhotoUpload.tsx (file       *)
(* intake), GenerationProgress.tsx (status polling effect),                *)
(* CharacterSelection.tsx (character catalog).                             *)
(*                                                                         *)
(* Every action is one JavaScript task (an event handler, a timer callback *)
(* or the continuation of an await) together with the React render and the *)
(* effect cleanup/run that the task's state updates cause.                 *)
(***************************************************************************)
EXTENDS Integers, FiniteSets, Sequences, TLC

(* ------------------------------ bounds -------------------------------- *)
\* number of files the user picks in one session
MaxUploads == 2
\* status queries that may be awaiting a response at the same time
MaxInflight == 2
\* interval ticks that fit into the poller's maximum wait (the code has
\* 300000 ms / 2000 ms = 150; the model scales the ratio down)
TimeoutTicks == 2

(* ----------------------------- constants ------------------------------ *)
\* PhotoUpload.tsx:25   file.size > 10 * 1024 * 1024
MaxFileSize == 10 * 1024 * 1024

\* JavaScript null / undefined
NULL == "null"
UNDEF == "undefined"

\* GenerationProgress.tsx:59
Placeholder == "https://via.placeholder.com/512x512/3b82f6/ffffff?text=Cosplay+Image"
\* App.tsx:57
StartFailedMsg == "Failed to start generation"
\* GenerationProgress.tsx:62
ProviderFailedMsg == "Generation failed. Please try again."
\* a timeout callback that reports the provider-failure text
TimedOutAsFailure == ProviderFailedMsg

\* GenerationProgress.tsx:74
TimedOutMsg == "Generation timed out. Please try again."

\* generation_id values of an accepted submission; "" stands for a response
\* body whose generation_id is empty or missing (falsy in JavaScript)
GenerationIds == {"job1", "job2", ""}

\* result_url values of a completed status response; "" stands for an empty
\* or missing result_url
ResultUrls == {"img://r1", ""}

\* reasons a provider may state in the body of a 'failed' status response;
\* the callback reads data.status and data.result_url only
\* (GenerationProgress.tsx:54-64)
FailureReasons == {"quota exceeded", "content rejected"}

\* what a status query can come back with: the three statuses the provider
\* documents, a status value outside that vocabulary, and a transient failure
\* (fetch rejects, response.ok is false, or the body does not parse)
PollStatuses == {"completed", "failed", "processing", "queued", "transient"}

\* a fallback list whose fifth entry repeats the first one
DefaultCharactersRepeated == <<
    [id |-> "sailor-moon", name |-> "Sailor Moon", style |-> "anime",
     description |-> "Classic anime magical girl"],
    [id |-> "wonder-woman", name |-> "Wonder Woman", style |-> "superhero",
     description |-> "Amazonian warrior princess"],
    [id |-> "dva", name |-> "D.Va", style |-> "gaming",
     description |-> "Professional gamer and mech pilot"],
    [id |-> "harley-quinn", name |-> "Harley Quinn", style |-> "comic",
     description |-> "Chaotic villain with jester costume"],
    [id |-> "sailor-moon", name |-> "Sailor Moon", style |-> "anime",
     description |-> "Classic anime magical girl"],
    [id |-> "power-girl", name |-> "Power Girl", style |-> "superhero",
     description |-> "Powerful superhero with classic costume"],
    [id |-> "2b", name |-> "2B", style |-> "gaming",
     description |-> "Android combat unit with elegant design"],
    [id |-> "mikasa", name |-> "Mikasa Ackerman", style |-> "anime",
     description |-> "Skilled soldier with military uniform"],
    [id |-> "catwoman", name |-> "Catwoman", style |-> "comic",
     description |-> "Feline-themed thief with sleek costume"],
    [id |-> "ahri", name |-> "Ahri", style |-> "gaming",
     description |-> "Nine-tailed fox spirit with magical attire"] >>

\* CharacterSelection.tsx:41-52   the embedded fallback list
DefaultCharacters == <<
    [id |-> "sailor-moon", name |-> "Sailor Moon", style |-> "anime",
     description |-> "Classic anime magical girl"],
    [id |-> "wonder-woman", name |-> "Wonder Woman", style |-> "superhero",
     description |-> "Amazonian warrior princess"],
    [id |-> "dva", name |-> "D.Va", style |-> "gaming",
     description |-> "Professional gamer and mech pilot"],
    [id |-> "harley-quinn", name |-> "Harley Quinn", style |-> "comic",
     description |-> "Chaotic villain with jester costume"],
    [id |-> "zelda", name |-> "Princess Zelda", style |-> "fantasy",
     description |-> "Royal princess with magical powers"],
    [id |-> "power-girl", name |-> "Power Girl", style |-> "superhero",
     description |-> "Powerful superhero with classic costume"],
    [id |-> "2b", name |-> "2B", style |-> "gaming",
     description |-> "Android combat unit with elegant design"],
    [id |-> "mikasa", name |-> "Mikasa Ackerman", style |-> "anime",
     description |-> "Skilled soldier with military uniform"],
    [id |-> "catwoman", name |-> "Catwoman", style |-> "comic",
     description |-> "Feline-themed thief with sleek costume"],
    [id |-> "ahri", name |-> "Ahri", style |-> "gaming",
     description |-> "Nine-tailed fox spirit with magical attire"] >>

\* the JavaScript value of a Character[] expression: an array, or undefined
Array(list) == [type |-> "array", items |-> list]
Undefined == [type |-> "undefined", items |-> <<>>]

\* character lists a GET /characters response may carry: one that holds the
\* initially selected 'sailor-moon' and one that does not
RemoteCatalogs == {
    << DefaultCharacters[1], DefaultCharacters[5] >>,
    << DefaultCharacters[5] >> }

\* how the catalog request of CharacterSelection.tsx:32-37 can come back:
\*   network  fetch rejects                          (line 32)
\*   status   response.ok is false                   (line 33)
\*   parse    response.json() rejects                (line 36)
\*   null     the body is the JSON value null        (line 37 throws)
\*   body     the body is an object; characters is its characters field,
\*            Undefined when the object has no such field
CatalogResponses ==
    [kind : {"network", "status", "parse", "null"}, characters : {Undefined}]
    \cup [kind : {"body"},
          characters : {Array(list) : list \in RemoteCatalogs}
                           \cup {Undefined}]

\* CharacterSelection.tsx:39   err instanceof Error ? err.message : ...
\* Every value thrown in the try block is an Error: the one of line 34, or a
\* native TypeError / SyntaxError whose text is the browser's.
errMessage(kind) ==
    IF kind = "status" THEN "Failed to fetch characters"
    ELSE "<message of the native error>"

\* ids of a character list
Ids(list) == {list.items[i].id : i \in DOMAIN list.items}

\* characters the user can pick: the ids a remote catalog can show
CharacterIds == {"sailor-moon", "zelda"}

\* GenerationProgress.tsx:36   Math.random() * 10 lies in [0, 10): the whole
\* parts the model draws, the smallest, a middle one and the largest
Randoms == {0, 3, 9}

\* files offered to the file input: declared MIME type and byte size
\* (file.type is <<major, minor>> for "major/minor"; <<"", "">> is the empty
\* type string the browser reports for an unknown type)
Files == [type : {<<"image", "png">>, <<"text", "plain">>, <<"", "">>},
          size : {1024, MaxFileSize, MaxFileSize + 1}]

(* ---------------------------- prompt builder --------------------------- *)
\* part_002:128-144   CHARACTERS, the prompt fragments of a character
CHARACTERS ==
    ("sailor-moon" :>
        [style |-> "anime style",
         costume |-> "detailed blue sailor costume, moon tiara, white gloves",
         pose |-> "magical girl pose",
         hair |-> "blonde twin tails with red ribbons"])
    @@ ("wonder-woman" :>
        [style |-> "superhero realistic",
         costume |-> "red and gold armor, lasso of truth, tiara",
         pose |-> "heroic power pose",
         hair |-> "long dark hair"])

\* part_002:124   Character: "Sailor Moon", the display name of the id
CharacterName(id) ==
    DefaultCharacters[CHOOSE i \in DOMAIN DefaultCharacters :
                          DefaultCharacters[i].id = id].name

\* part_002:146-150   what the image analysis extracts from a photo
PhotoAnalyses ==
    [hair : {"blonde", "brunette", "black", "red"},
     skin : {"light", "medium", "dark"},
     pose : {"standing", "sitting", "action"}]

\* part_002:155-160, App.tsx:38   the style a request may carry
StyleTags == {"anime", "realistic"}

\* a build_prompt that puts the costume before the style
build_promptCostumeFirst(photo_analysis, character, style) ==
    << [part |-> "subject", text |-> photo_analysis.hair],
       [part |-> "character", text |-> CharacterName(character)],
       [part |-> "costume", text |-> CHARACTERS[character].costume],
       [part |-> "style", text |-> CHARACTERS[character].style],
       [part |-> "pose", text |-> CHARACTERS[character].pose],
       [part |-> "lighting", text |-> "studio lighting"],
       [part |-> "quality", text |-> "high quality"] >>

\* part_002:120-126   build_prompt(photo_analysis, character, style)
\* The function is documented by its signature and one result:
\*   "Professional cosplay photograph of Asian woman with long black hair
\*    as Sailor Moon, anime style, detailed blue sailor costume, moon tiara,
\*    magical girl pose, studio lighting, high quality"
\* that is: the subject taken from the photo analysis, the character's name,
\* then the character's style, costume and pose fragments, then two fixed
\* qualifiers.  The character's hair fragment is not part of the result (the
\* subject keeps the hair of the photo).  The prompt is the sequence of its
\* parts.
build_prompt(photo_analysis, character, style) ==
    << [part |-> "subject", text |-> photo_analysis.hair],
       [part |-> "character", text |-> CharacterName(character)],
       [part |-> "style", text |-> CHARACTERS[character].style],
       [part |-> "costume", text |-> CHARACTERS[character].costume],
       [part |-> "pose", text |-> CHARACTERS[character].pose],
       [part |-> "lighting", text |-> "studio lighting"],
       [part |-> "quality", text |-> "high quality"] >>

\* no prompt has been requested yet
NoRequest ==
    [photo_analysis |-> [hair |-> "", skin |-> "", pose |-> ""],
     character |-> "", style |-> ""]

(* ------------------------------- state -------------------------------- *)
VARIABLES
    generationState,    \* App.tsx:16  useState<GenerationState>
    selectedCharacter,  \* App.tsx:22
    uploadedImage,      \* App.tsx:23
    photoError,         \* PhotoUpload.tsx:11  error
    preview,            \* PhotoUpload.tsx:10  preview
    reads,              \* FileReader.readAsDataURL calls whose onload is pending
    submits,            \* handleImageUpload calls awaiting the provider's answer
    polls,              \* status queries awaiting the provider's answer
    pollerId,           \* run number of the poll effect that owns the timers
    pollInterval,       \* GenerationProgress.tsx:47  interval timer is live
    timeout,            \* GenerationProgress.tsx:72  timeout timer is live
    elapsed,            \* interval periods since the poll effect ran
    uploads,            \* files picked so far
    lastPoll,           \* how the running poller's latest response was handled
    characters,         \* CharacterSelection.tsx:21
    loading,            \* CharacterSelection.tsx:22
    characterError,     \* CharacterSelection.tsx:23  error
    terminalCalls,      \* per poll-effect run: onComplete/onError invocations
    promptRequest,      \* part_002:122  arguments of the latest build_prompt
    prompt,             \* part_002:125  the prompt it returned
    currentProgress,    \* GenerationProgress.tsx:18 of the mounted instance
    progressInterval,   \* GenerationProgress.tsx:29  interval timer is live
    submittedCharacter  \* App.tsx:37  character sent for the job the state holds

vars == <<generationState, selectedCharacter, uploadedImage, photoError,
          preview, reads, submits, polls, pollerId, pollInterval, timeout,
          elapsed, uploads, lastPoll, characters, loading, characterError,
          terminalCalls, promptRequest, prompt, currentProgress,
          progressInterval, submittedCharacter>>

\* the simulated progress of GenerationProgress
simulated == <<currentProgress, progressInterval>>

\* the state of the prompt builder
prompts == <<promptRequest, prompt>>

\* the state of CharacterSelection
catalog == <<characters, loading, characterError>>

(* ------------------------ GenerationState updaters --------------------- *)
\* App.tsx:16-20 and 88-92
InitialState ==
    [id |-> NULL, status |-> "idle", progress |-> 0,
     result |-> UNDEF, error |-> UNDEF]

\* JavaScript truthiness of a string | null | undefined
Truthy(v) == v \notin {NULL, UNDEF, ""}

\* App.tsx:27   prev => ({ ...prev, status: 'uploading' })
setUploading(prev) == [prev EXCEPT !.status = "uploading"]

\* a catch block that records the status without a description
setStartFailedNoText(prev) == [prev EXCEPT !.status = "error"]

\* App.tsx:57
setStartFailed(prev) ==
    [prev EXCEPT !.status = "error", !.error = StartFailedMsg]

\* App.tsx:61-68
handleGenerationStart(prev, generationId) ==
    [prev EXCEPT !.id = generationId, !.status = "processing", !.progress = 0]

\* a handleGenerationComplete that leaves progress alone
handleGenerationCompleteKeepsProgress(prev, result) ==
    [prev EXCEPT !.status = "completed", !.result = result]

\* App.tsx:70-77
handleGenerationComplete(prev, result) ==
    [prev EXCEPT !.status = "completed", !.progress = 100, !.result = result]

\* a handleGenerationError that drops the description
handleGenerationErrorNoText(prev, error) == [prev EXCEPT !.status = "error"]

\* App.tsx:79-85
handleGenerationError(prev, error) ==
    [prev EXCEPT !.status = "error", !.error = error]

\* a completed branch whose fallback is null: data.result_url || null
ResultOrNull(result_url) ==
    IF Truthy(result_url) THEN result_url ELSE NULL

\* the completed branch without its fallback: onComplete(data.result_url)
ResultWithoutFallback(result_url) == result_url

\* GenerationProgress.tsx:59   data.result_url || '<placeholder>'
ResultOrPlaceholder(result_url) ==
    IF Truthy(result_url) THEN result_url ELSE Placeholder

\* PhotoUpload.tsx:19   file.type.startsWith('image/')
startsWithImage(type) == type[1] = "image"

\* PhotoUpload.tsx:20, 26   the messages handleFiles sets
InvalidTypeMsg == "Please upload an image file (JPEG, PNG, WebP)"
TooLargeMsg == "File size must be less than 10MB"

\* handleFiles without its checks
validateNothing(file) == "ok"

\* handleFiles without the size check
validateTypeOnly(file) ==
    IF ~startsWithImage(file.type) THEN InvalidTypeMsg ELSE "ok"

\* handleFiles with file.size >= 10 * 1024 * 1024
validateInclusive(file) ==
    IF ~startsWithImage(file.type)
    THEN InvalidTypeMsg
    ELSE IF file.size >= MaxFileSize
         THEN TooLargeMsg
         ELSE "ok"

\* PhotoUpload.tsx:19-28   "ok", or the error message handleFiles sets
validate(file) ==
    IF ~startsWithImage(file.type)
    THEN InvalidTypeMsg
    ELSE IF file.size > MaxFileSize
         THEN TooLargeMsg
         ELSE "ok"

\* App.tsx:132, 143   disabled={generationState.status === 'processing'}
disabled == generationState.status = "processing"

\* App.tsx:168   GenerationProgress is rendered
Mounted(g) == g.status \in {"uploading", "processing"}

\* GenerationProgress.tsx:45   the poll effect's guard
PollGuard(g) == Truthy(g.id) /\ g.status = "processing"

\* CharacterSelection.tsx:86-125   with loading and error both unset the
\* component renders characters.map(...), which throws when characters is
\* not a list; the uncaught render error makes React unmount the whole tree:
\* no control is left on the page and later state updates are dropped
crashed == ~loading /\ characterError = NULL /\ characters = Undefined

(* --------------------------- render + effects -------------------------- *)
\* GenerationProgress.tsx:21-42   the status effect (deps [status]) with
\* its cleanup, when state g is rendered: a new instance starts from
\* useState(0) and runs the effect, a mounted instance runs it again when its
\* status prop changed; an unmounted instance has no progress (0, the value
\* the next instance starts from) and no interval.  setCurrentProgress(100)
\* of the completed branch (line 57) is batched with the onComplete update
\* that unmounts the instance, so it is never rendered.
StatusEffect(g) ==
    IF ~Mounted(g)
    THEN /\ currentProgress' = 0
         /\ progressInterval' = FALSE
    ELSE IF Mounted(generationState) /\ g.status = generationState.status
    THEN /\ currentProgress' = currentProgress
         /\ progressInterval' = progressInterval
    ELSE IF g.status = "uploading"
    THEN /\ currentProgress' = 10
         /\ progressInterval' = FALSE
    ELSE /\ currentProgress' = 20
         /\ progressInterval' = TRUE

\* a poll effect whose cleanup is missing: timers that exist stay
RenderWithoutCleanup(g) ==
    /\ StatusEffect(g)
    /\ IF PollGuard(g)
       THEN /\ pollerId' = pollerId + 1
            /\ pollInterval' = TRUE
            /\ timeout' = TRUE
            /\ elapsed' = 0
            /\ lastPoll' = "none"
       ELSE /\ pollerId' = pollerId
            /\ pollInterval' = pollInterval
            /\ timeout' = timeout
            /\ elapsed' = elapsed
            /\ lastPoll' = "none"

\* Every App render hands GenerationProgress fresh onComplete/onError
\* closures (App.tsx:70, 79 are re-created per render), so the poll effect
\* (deps at GenerationProgress.tsx:82) is cleaned up and re-run on every App
\* render; an unmount runs the cleanup only.  g is the state rendered.
Render(g) ==
    /\ StatusEffect(g)
    /\ IF PollGuard(g)
       THEN /\ pollerId' = pollerId + 1
            /\ pollInterval' = TRUE
            /\ timeout' = TRUE
            /\ elapsed' = 0
            /\ lastPoll' = "none"
       ELSE /\ pollerId' = pollerId
            /\ pollInterval' = FALSE
            /\ timeout' = FALSE
            /\ elapsed' = 0
            /\ lastPoll' = "none"

Init ==
    /\ generationState = InitialState
    /\ selectedCharacter = "sailor-moon"
    /\ uploadedImage = NULL
    /\ photoError = NULL
    /\ preview = NULL
    /\ reads = {}
    /\ submits = {}
    /\ polls = {}
    /\ pollerId = 0
    /\ pollInterval = FALSE
    /\ timeout = FALSE
    /\ elapsed = 0
    /\ uploads = 0
    /\ lastPoll = "none"
    /\ characters = Array(<<>>)
    /\ loading = TRUE
    /\ characterError = NULL
    /\ terminalCalls = <<>>
    /\ promptRequest = NoRequest
    /\ prompt = <<>>
    /\ currentProgress = 0
    /\ progressInterval = FALSE
    /\ submittedCharacter = NULL

(* ------------------------------ PhotoUpload ---------------------------- *)
\* PhotoUpload.tsx:35, 39   the data URL (a string) that reading the n-th
\* picked file yields
dataURL(n) == "data:image/" \o ToString(n)

\* PhotoUpload.tsx:13-40, reached through handleChange / handleDrop
\* (52-67), which return early when disabled.  The onImageUpload that the
\* reader's onload will call is the handleImageUpload of the current render,
\* whose selectedCharacter is the one selected now.
handleFiles(file) ==
    /\ ~crashed
    /\ UNCHANGED catalog
    /\ UNCHANGED prompts
    /\ submittedCharacter' = submittedCharacter
    /\ ~disabled
    /\ uploads < MaxUploads
    /\ uploads' = uploads + 1
    /\ IF validate(file) # "ok"
       THEN /\ photoError' = validate(file)
            /\ reads' = reads
       ELSE /\ photoError' = NULL
            /\ reads' = reads \cup {[img |-> dataURL(uploads + 1),
                                     character |-> selectedCharacter]}
    /\ UNCHANGED <<generationState, selectedCharacter, uploadedImage, preview,
                   submits, polls, pollerId, pollInterval, timeout, elapsed,
                   lastPoll, terminalCalls, currentProgress,
                   progressInterval>>

\* PhotoUpload.tsx:34-38 reader.onload, and the synchronous part of
\* handleImageUpload it calls (App.tsx:25-27); the request of App.tsx:44 is
\* then awaiting its answer
handleImageUpload(r) ==
    /\ ~crashed
    /\ UNCHANGED catalog
    /\ UNCHANGED prompts
    /\ submittedCharacter' = submittedCharacter
    /\ r \in reads
    /\ reads' = reads \ {r}
    /\ preview' = r.img
    /\ uploadedImage' = r.img
    /\ generationState' = setUploading(generationState)
    /\ submits' = submits \cup {r}
    /\ Render(generationState')
    /\ UNCHANGED <<selectedCharacter, photoError, polls, uploads,
                   terminalCalls>>

(* --------------------------------- App --------------------------------- *)
\* App.tsx:53-54   the provider accepted submission s with generation_id
providerAccepted(s, generationId) ==
    /\ ~crashed
    /\ UNCHANGED catalog
    /\ UNCHANGED prompts
    /\ submittedCharacter' = s.character
    /\ s \in submits
    /\ submits' = submits \ {s}
    /\ generationState' = handleGenerationStart(generationState, generationId)
    /\ Render(generationState')
    /\ terminalCalls' = IF PollGuard(generationState')
                        THEN Append(terminalCalls, 0) ELSE terminalCalls
    /\ UNCHANGED <<selectedCharacter, uploadedImage, photoError, preview,
                   reads, polls, uploads>>

\* App.tsx:49-51, 55-58   fetch rejected, !apiResponse.ok, or json() threw
submitFailed(s) ==
    /\ ~crashed
    /\ UNCHANGED catalog
    /\ UNCHANGED prompts
    /\ submittedCharacter' = submittedCharacter
    /\ s \in submits
    /\ submits' = submits \ {s}
    /\ generationState' = setStartFailed(generationState)
    /\ Render(generationState')
    /\ UNCHANGED <<selectedCharacter, uploadedImage, photoError, preview,
                   reads, polls, uploads, terminalCalls>>

\* a reset that keeps the uploaded image
resetGenerationKeepsImage ==
    /\ ~crashed
    /\ UNCHANGED catalog
    /\ UNCHANGED prompts
    /\ submittedCharacter' = NULL
    /\ \/ generationState.status = "error"
       \/ /\ generationState.status = "completed"
          /\ Truthy(generationState.result)
    /\ generationState' = InitialState
    /\ uploadedImage' = uploadedImage
    /\ Render(generationState')
    /\ UNCHANGED <<selectedCharacter, photoError, preview, reads, submits,
                   polls, uploads, terminalCalls>>

\* App.tsx:87-94, offered by ResultDisplay (App.tsx:178-185) and by the
\* Try Again button (App.tsx:187-206)
resetGeneration ==
    /\ ~crashed
    /\ UNCHANGED catalog
    /\ UNCHANGED prompts
    /\ submittedCharacter' = NULL
    /\ \/ generationState.status = "error"
       \/ /\ generationState.status = "completed"
          /\ Truthy(generationState.result)
    /\ generationState' = InitialState
    /\ uploadedImage' = NULL
    /\ Render(generationState')
    /\ UNCHANGED <<selectedCharacter, photoError, preview, reads, submits,
                   polls, uploads, terminalCalls>>

\* App.tsx:142 with CharacterSelection.tsx:128
\* onClick={() => !disabled && onCharacterSelect(character.id)}
\* The buttons exist only when the grid is rendered: the loading branch
\* (CharacterSelection.tsx:86-100) and the error branch (102-119) return
\* before it.
selectCharacter(c) ==
    /\ ~crashed
    /\ UNCHANGED catalog
    /\ UNCHANGED prompts
    /\ submittedCharacter' = submittedCharacter
    /\ ~loading
    /\ characterError = NULL
    /\ c \in Ids(characters)
    /\ ~disabled
    /\ c # selectedCharacter
    /\ selectedCharacter' = c
    /\ Render(generationState)
    /\ UNCHANGED <<generationState, uploadedImage, photoError, preview, reads,
                   submits, polls, uploads, terminalCalls>>

(* -------------------------- CharacterSelection ------------------------- *)
\* CharacterSelection.tsx:29-56   the request issued on mount settles
fetchCharacters(response) ==
    /\ loading
    /\ UNCHANGED prompts
    /\ submittedCharacter' = submittedCharacter
    /\ loading' = FALSE
    /\ IF response.kind = "body"
       THEN /\ characters' = response.characters
            /\ characterError' = characterError
       ELSE /\ characters' = Array(DefaultCharacters)
            /\ characterError' = errMessage(response.kind)
    /\ IF response.kind = "body" /\ response.characters = Undefined
       THEN /\ pollInterval' = FALSE
            /\ timeout' = FALSE
            /\ lastPoll' = "none"
            /\ currentProgress' = 0
            /\ progressInterval' = FALSE
       ELSE UNCHANGED <<pollInterval, timeout, lastPoll, currentProgress,
                        progressInterval>>
    /\ UNCHANGED <<generationState, selectedCharacter, uploadedImage,
                   photoError, preview, reads, submits, polls, pollerId,
                   elapsed, uploads, terminalCalls>>

(* -------------------------- GenerationProgress ------------------------- *)
\* GenerationProgress.tsx:47-49   the interval fires and issues a query
pollTick ==
    /\ ~crashed
    /\ UNCHANGED catalog
    /\ UNCHANGED prompts
    /\ submittedCharacter' = submittedCharacter
    /\ pollInterval
    /\ elapsed < TimeoutTicks
    /\ Cardinality(polls) < MaxInflight
    /\ elapsed' = elapsed + 1
    /\ polls' = polls \cup {[poller |-> pollerId, id |-> generationState.id,
                             tick |-> elapsed + 1]}
    /\ UNCHANGED <<generationState, selectedCharacter, uploadedImage,
                   photoError, preview, reads, submits, pollerId,
                   pollInterval, timeout, uploads, lastPoll, terminalCalls,
                   currentProgress, progressInterval>>

\* terminalCalls after run p of the poll effect called onComplete or onError
Called(p) == [terminalCalls EXCEPT ![p] = @ + 1]

\* a dispatch that treats every status other than completed and processing
\* as a failure
dispatchUnknownFails(status) ==
    IF status = "transient" THEN "none"
    ELSE IF status = "completed" THEN "onComplete"
    ELSE IF status = "processing" THEN "none"
    ELSE "onError"

\* a dispatch whose catch block reports the failure through onError
dispatchFailFast(status) ==
    IF status = "transient" THEN "onError"
    ELSE IF status = "completed" THEN "onComplete"
    ELSE IF status = "failed" THEN "onError"
    ELSE "none"

\* a dispatch without the failed branch
dispatchIgnoresFailed(status) ==
    IF status = "transient" THEN "none"
    ELSE IF status = "completed" THEN "onComplete"
    ELSE "none"

\* GenerationProgress.tsx:48-68   which callback the handling of a status
\* response ends in: the completed branch, the failed branch, or neither
\* (another status falls through both tests, a failure lands in the catch)
dispatch(status) ==
    IF status = "transient" THEN "none"
    ELSE IF status = "completed" THEN "onComplete"
    ELSE IF status = "failed" THEN "onError"
    ELSE "none"

\* GenerationProgress.tsx:50-68   the continuation of query q's await
pollResponse(q, status, result_url) ==
    /\ ~crashed
    /\ UNCHANGED catalog
    /\ UNCHANGED prompts
    /\ submittedCharacter' = submittedCharacter
    /\ q \in polls
    /\ polls' = polls \ {q}
    /\ IF dispatch(status) = "onComplete"
       THEN /\ generationState' = handleGenerationComplete(generationState,
                                       ResultOrPlaceholder(result_url))
            /\ terminalCalls' = Called(q.poller)
            /\ Render(generationState')
       ELSE IF dispatch(status) = "onError"
       THEN /\ generationState' = handleGenerationError(generationState,
                                       ProviderFailedMsg)
            /\ terminalCalls' = Called(q.poller)
            /\ Render(generationState')
       ELSE /\ lastPoll' = IF q.poller = pollerId /\ pollInterval
                            THEN status ELSE lastPoll
            /\ UNCHANGED <<generationState, terminalCalls, pollerId,
                           pollInterval, timeout, elapsed, currentProgress,
                           progressInterval>>
    /\ UNCHANGED <<selectedCharacter, uploadedImage, photoError, preview,
                   reads, submits, uploads>>

\* GenerationProgress.tsx:72-75   the timeout fires
timeoutFires ==
    /\ ~crashed
    /\ UNCHANGED catalog
    /\ UNCHANGED prompts
    /\ submittedCharacter' = submittedCharacter
    /\ timeout
    /\ elapsed = TimeoutTicks
    /\ generationState' = handleGenerationError(generationState, TimedOutMsg)
    /\ terminalCalls' = Called(pollerId)
    /\ Render(generationState')
    /\ UNCHANGED <<selectedCharacter, uploadedImage, photoError, preview,
                   reads, submits, polls, uploads>>

\* GenerationProgress.tsx:29-39   the one-second interval fires; random is
\* the whole part of Math.random() * 10.  At 90 or above the callback clears
\* its interval and keeps the value.
progressTick(random) ==
    /\ ~crashed
    /\ UNCHANGED catalog
    /\ UNCHANGED prompts
    /\ submittedCharacter' = submittedCharacter
    /\ progressInterval
    /\ IF currentProgress >= 90
       THEN /\ progressInterval' = FALSE
            /\ currentProgress' = currentProgress
       ELSE /\ progressInterval' = TRUE
            /\ currentProgress' = currentProgress + random
    /\ UNCHANGED <<generationState, selectedCharacter, uploadedImage,
                   photoError, preview, reads, submits, polls, pollerId,
                   pollInterval, timeout, elapsed, uploads, lastPoll,
                   terminalCalls>>

(* ------------------------------- backend ------------------------------- *)
\* part_002:77, 120-126   the Prompt Building step of the generation
\* pipeline: build_prompt is applied to the analysis of the uploaded photo,
\* the character and the style of a request
promptBuilding(photo_analysis, character, style) ==
    /\ promptRequest' = [photo_analysis |-> photo_analysis,
                         character |-> character, style |-> style]
    /\ prompt' = build_prompt(photo_analysis, character, style)
    /\ UNCHANGED <<generationState, selectedCharacter, uploadedImage,
                   photoError, preview, reads, submits, polls, pollerId,
                   pollInterval, timeout, elapsed, uploads, lastPoll,
                   characters, loading, characterError, terminalCalls,
                   currentProgress, progressInterval, submittedCharacter>>

(* ---------------------------- specification ---------------------------- *)
Next ==
    \/ \E file \in Files : handleFiles(file)
    \/ \E r \in reads : handleImageUpload(r)
    \/ \E s \in submits, generationId \in GenerationIds :
           providerAccepted(s, generationId)
    \/ \E s \in submits : submitFailed(s)
    \/ resetGeneration
    \/ \E c \in CharacterIds : selectCharacter(c)
    \/ pollTick
    \/ \E q \in polls, status \in PollStatuses, result_url \in ResultUrls :
           /\ status # "completed" => result_url = ""
           /\ pollResponse(q, status, result_url)
    \/ timeoutFires
    \/ \E response \in CatalogResponses : fetchCharacters(response)

Spec == Init /\ [][Next]_vars

TypeOK ==
    /\ generationState.status \in
           {"idle", "uploading", "processing", "completed", "error"}
    /\ generationState.progress \in {0, 100}
    /\ uploads \in 0..MaxUploads
    /\ elapsed \in 0..TimeoutTicks
    /\ Cardinality(polls) <= MaxInflight
    /\ pollerId = Len(terminalCalls)

\* the generation lifecycle together with the simulated progress animation
ProgressNext ==
    \/ Next
    \/ \E random \in Randoms : progressTick(random)

ProgressSpec == Init /\ [][ProgressNext]_vars

\* the prompt builder on its own: any sequence of build_prompt calls
PromptNext ==
    \E photo_analysis \in PhotoAnalyses, character \in DOMAIN CHARACTERS,
       style \in StyleTags :
        promptBuilding(photo_analysis, character, style)

PromptSpec == Init /\ [][PromptNext]_vars

\* Timers fire, and every awaited read or request eventually settles; the
\* user is under no obligation to do anything.
FairSpec ==
    /\ Spec
    /\ WF_vars(\E r \in reads : handleImageUpload(r))
    /\ WF_vars(\E s \in submits, generationId \in GenerationIds :
                  providerAccepted(s, generationId))
    /\ WF_vars(pollTick)
    /\ WF_vars(\E q \in polls, status \in PollStatuses,
                  result_url \in ResultUrls :
                  pollResponse(q, status, result_url))
    /\ WF_vars(timeoutFires)

(* ------------------------------- claims -------------------------------- *)
InFlight == generationState.status \in {"uploading", "processing"}
Terminal == generationState.status \in {"completed", "error"}

\* a status query whose poller has been stopped: the poll effect that issued
\* it has been cleaned up or replaced, or its interval has been cleared
Stopped(q) == q.poller # pollerId \/ ~pollInterval

\* C1: a submit (handleImageUpload) that arrives while the status is
\* 'uploading' or 'processing' leaves the generation state (id, status,
\* progress, result, error) unchanged.
C1_SubmitInFlightRejected ==
    [][\A r \in reads :
          (InFlight /\ handleImageUpload(r))
              => generationState' = generationState]_vars

\* C2: at most one generation request is in flight: never two provider
\* submissions pending at once, never a pending submission while a job is
\* being polled.
C2_OneRequestInFlight ==
    /\ Cardinality(submits) <= 1
    /\ submits # {} => ~pollInterval

\* C3: the response to a status query of a stopped poller is discarded: it
\* does not change the generation state.
C3_StoppedPollerDiscarded ==
    [][\A q \in polls, status \in PollStatuses, result_url \in ResultUrls :
          (Stopped(q) /\ pollResponse(q, status, result_url))
              => generationState' = generationState]_vars

\* C4: once the status is 'completed' or 'error', no poll response and no
\* timer changes status, result or error.
C4_TerminalIsFinal ==
    [][(/\ Terminal
        /\ \/ timeoutFires
           \/ \E q \in polls, status \in PollStatuses,
                 result_url \in ResultUrls :
                 pollResponse(q, status, result_url))
          => /\ generationState'.status = generationState.status
             /\ generationState'.result = generationState.result
             /\ generationState'.error = generationState.error]_vars

\* C5: whenever the status is 'processing' it eventually becomes 'completed'
\* or 'error', whatever job id the provider returned (timers fire).
C5_ProcessingEnds ==
    (generationState.status = "processing") ~> Terminal

\* C6: status = completed implies a non-empty result, and status = error
\* implies a non-empty error.
C6_TerminalCarriesOutcome ==
    /\ generationState.status = "completed"
          => generationState.result \notin {UNDEF, NULL, ""}
    /\ generationState.status = "error"
          => generationState.error \notin {UNDEF, NULL, ""}

\* C6 witness: a completed response without result_url has been applied
C6_Witness ==
    /\ generationState.status = "completed"
    /\ generationState.result = Placeholder

\* C7: result is present only if the status is 'completed'.
C7_ResultOnlyWhenCompleted ==
    generationState.result # UNDEF => generationState.status = "completed"

\* C8: error is present only if the status is 'error'.
C8_ErrorOnlyWhenError ==
    generationState.error # UNDEF => generationState.status = "error"

\* C9: for one poller run the terminal callback (onComplete or onError) is
\* invoked at most once in total.
C9_TerminalCallbackOnce ==
    \A p \in DOMAIN terminalCalls : terminalCalls[p] <= 1

\* C10: a transient poll failure changes neither the generation state nor
\* the poller's timers: the status stays 'processing' while the poller runs
\* and the interval stays live for the next tick.
C10_TransientSwallowed ==
    [][\A q \in polls, result_url \in ResultUrls :
          pollResponse(q, "transient", result_url)
              => /\ generationState' = generationState
                 /\ pollInterval' = pollInterval
                 /\ timeout' = timeout
                 /\ elapsed' = elapsed
                 /\ terminalCalls' = terminalCalls]_vars

\* C10 witness: the running poller's latest query failed transiently, the
\* status is still 'processing' and the next tick is due to issue a query
C10_Witness ==
    /\ lastPoll = "transient"
    /\ generationState.status = "processing"
    /\ pollInterval
    /\ elapsed >= 1
    /\ \A q \in polls : q.poller # pollerId
    /\ ENABLED pollTick

\* the declared type of a file is not an image type / its size is above
\* 10 MiB
NotImage(file) == file.type[1] # "image"
TooLarge(file) == file.size > 10 * 1024 * 1024

\* C11: the timeout fires at the boundary of the maximum wait, delivers the
\* timeout outcome (not the provider-failure outcome) as the first and only
\* terminal callback of a poller whose queries got no terminal answer, and
\* stops the poller: queries are issued only while the timeout is pending.
C11_TimeoutAtBoundaryOnce ==
    [][/\ timeoutFires
           => /\ elapsed = TimeoutTicks
              /\ terminalCalls[pollerId] = 0
              /\ terminalCalls'[pollerId] = 1
              /\ generationState'.status = "error"
              /\ generationState'.error = "Generation timed out. Please try again."
              /\ generationState'.error # ProviderFailedMsg
              /\ ~pollInterval'
              /\ ~timeout'
       /\ pollTick => timeout /\ elapsed < TimeoutTicks
       /\ \A q \in polls, status \in PollStatuses \ {"completed", "failed"} :
             pollResponse(q, status, "") => terminalCalls' = terminalCalls
      ]_vars

\* C11 witness: a poller ran into its timeout with every query answered and
\* exactly one terminal callback
C11_Witness ==
    /\ generationState.status = "error"
    /\ generationState.error = TimedOutMsg
    /\ pollerId >= 1
    /\ terminalCalls[pollerId] = 1
    /\ polls = {}
    /\ ~pollInterval

C14_InvalidNoNetwork ==
    [][\A file \in Files :
          ((NotImage(file) \/ TooLarge(file)) /\ handleFiles(file))
              => /\ reads' = reads
                 /\ submits' = submits]_vars

\* C14 witness: an oversized image was picked and nothing is in flight
C14_Witness ==
    /\ photoError = TooLargeMsg
    /\ uploads = 1
    /\ reads = {}
    /\ submits = {}

\* C15 (as claimed): every file above 10 MiB is rejected as too large, every
\* non-image file as of invalid type, every other file is accepted.
C15_ValidateAsClaimed ==
    [][\A file \in Files :
          handleFiles(file)
              => /\ TooLarge(file) => photoError' = TooLargeMsg
                 /\ NotImage(file) => photoError' = InvalidTypeMsg
                 /\ (~TooLarge(file) /\ ~NotImage(file))
                        => photoError' = NULL /\ reads' # reads]_vars

\* C15 (amended): the type is checked first: every non-image file is
\* rejected as of invalid type whatever its size, an image file above 10 MiB
\* is rejected as too large, and every other file (an image of exactly
\* 10 MiB included) is accepted.
C15_ValidateTypeFirst ==
    [][\A file \in Files :
          handleFiles(file)
              => /\ NotImage(file) => photoError' = InvalidTypeMsg
                 /\ (~NotImage(file) /\ TooLarge(file))
                        => photoError' = TooLargeMsg
                 /\ (~TooLarge(file) /\ ~NotImage(file))
                        => photoError' = NULL /\ reads' # reads]_vars

\* C15 witness: one file was accepted and a later one rejected as too large
C15_Witness ==
    /\ photoError = TooLargeMsg
    /\ uploads = 2
    /\ reads # {}

\* C16: reset() is available in every terminal state, and after it the
\* request is cleared: the generation state is the initial one (idle, id
\* null, progress 0, no result, no error), the uploaded image is null, and
\* neither the poll interval nor the timeout is live.
C16_ResetAvailableAndClears ==
    /\ [](Terminal => ENABLED resetGeneration)
    /\ [][resetGeneration
             => /\ generationState'.status = "idle"
                /\ generationState'.id = NULL
                /\ generationState'.progress = 0
                /\ generationState'.result = UNDEF
                /\ generationState'.error = UNDEF
                /\ uploadedImage' = NULL
                /\ ~pollInterval'
                /\ ~timeout']_vars

\* C17: when the running poller of a processing job receives 'completed'
\* with a non-empty result reference r (after any number of non-terminal
\* responses), the state becomes 'completed' with result r and progress 100.
C17_CompletedCarriesResult ==
    [][\A q \in polls, r \in ResultUrls \ {""} :
          (/\ generationState.status = "processing"
           /\ ~Stopped(q)
           /\ pollResponse(q, "completed", r))
              => /\ generationState'.status = "completed"
                 /\ generationState'.result = r
                 /\ generationState'.progress = 100]_vars

\* C17 witness: the only terminal callback of the latest poller was the
\* completed one, with the provider's result reference
C17_Witness ==
    /\ generationState.status = "completed"
    /\ generationState.result = "img://r1"
    /\ generationState.progress = 100
    /\ pollerId >= 1
    /\ terminalCalls[pollerId] = 1
    /\ generationState.error = UNDEF

\* C18 (as claimed): when the provider reports 'failed', the error recorded
\* is the reason the provider's response states.
C18_ProviderReasonSurfaced ==
    [][\A q \in polls, reason \in FailureReasons :
          pollResponse(q, "failed", "")
              => /\ generationState'.status = "error"
                 /\ generationState'.error = reason]_vars

\* C18 (amended): when the provider reports 'failed', the request ends in
\* status 'error' and its error is the fixed text of the failed branch,
\* whatever the response states.
C18_FailedFixedText ==
    [][\A q \in polls :
          pollResponse(q, "failed", "")
              => /\ generationState'.status = "error"
                 /\ generationState'.error =
                        "Generation failed. Please try again."
                 /\ generationState'.error \notin FailureReasons]_vars

\* C18 witness: a provider failure has been surfaced
C18_Witness ==
    /\ generationState.status = "error"
    /\ generationState.error = ProviderFailedMsg

\* a catalog response that is a failed fetch: network error, non-success
\* response, or malformed payload (unparsable, null, or without a character
\* sequence)
FetchFailure(response) ==
    response.kind # "body" \/ response.characters = Undefined

\* C19: after each kind of catalog fetch failure the active character list
\* is exactly the embedded default list.
C19_FailureInstallsDefaults ==
    [][\A response \in CatalogResponses :
          (FetchFailure(response) /\ fetchCharacters(response))
              => characters' = Array(DefaultCharacters)]_vars

\* C20: once the catalog has settled, a submit whose character id is absent
\* from the active list is rejected: it issues no provider request.
C20_UnknownCharacterRejected ==
    [][\A r \in reads :
          (/\ ~loading
           /\ r.character \notin Ids(characters)
           /\ handleImageUpload(r))
              => submits' = submits]_vars

\* C21: the embedded default list, as installed after a failed fetch, is
\* non-empty, has no two entries with the same id, has only styles out of
\* anime, superhero, gaming, comic, fantasy, and has an entry of each of
\* these five styles.
C21_DefaultListWellFormed ==
    characterError # NULL
        => /\ characters.items # <<>>
           /\ \A i, j \in DOMAIN characters.items :
                 characters.items[i].id = characters.items[j].id => i = j
           /\ \A i \in DOMAIN characters.items :
                 characters.items[i].style \in
                     {"anime", "superhero", "gaming", "comic", "fantasy"}
           /\ \A style \in
                     {"anime", "superhero", "gaming", "comic", "fantasy"} :
                 \E i \in DOMAIN characters.items :
                     characters.items[i].style = style

\* C21 witness: the fetch failed and the ten fallback entries are active
C21_Witness ==
    /\ ~loading
    /\ characterError # NULL
    /\ Len(characters.items) = 10
    /\ characters = Array(DefaultCharacters)

\* the parts of a prompt, in the order they appear in it
Parts(p) == [i \in DOMAIN p |-> p[i].part]

\* part a comes before part b in prompt p
Before(p, a, b) ==
    \E i, j \in DOMAIN p : i < j /\ p[i].part = a /\ p[j].part = b

C23_TimersScopedToPoller ==
    /\ [](pollInterval \/ timeout
              => /\ generationState.status = "processing"
                 /\ generationState.id \notin {NULL, UNDEF, ""})
    /\ [][/\ (generationState'.id # generationState.id /\ pollInterval')
              => pollerId' = pollerId + 1 /\ elapsed' = 0
          /\ (generationState'.id # generationState.id /\ timeout')
              => pollerId' = pollerId + 1 /\ elapsed' = 0
          /\ generationState'.status # "processing"
              => ~pollInterval' /\ ~timeout']_vars

\* C23 witness: a poller ran for a job, the job ended and was reset, and no
\* timer is left
C23_Witness ==
    /\ generationState = InitialState
    /\ pollerId >= 1
    /\ ~pollInterval
    /\ ~timeout

\* C24: accepting a submission with job id j makes the status 'processing'
\* with id = j and starts a poller for j; a status query is keyed by the id
\* the state holds when it is issued; and a poll outcome that changes the
\* state belongs to the job id the state holds.
C24_OutcomeBelongsToCurrentJob ==
    [][/\ \A s \in submits, j \in GenerationIds \ {""} :
             providerAccepted(s, j)
                 => /\ generationState'.status = "processing"
                    /\ generationState'.id = j
                    /\ pollInterval' /\ timeout'
                    /\ pollerId' = pollerId + 1
       /\ pollTick
             => \A q \in polls' \ polls :
                   q.id = generationState.id /\ q.poller = pollerId
       /\ \A q \in polls, status \in {"completed", "failed"},
             result_url \in ResultUrls :
             (/\ pollResponse(q, status, result_url)
              /\ generationState' # generationState)
                 => q.id = generationState.id
      ]_vars

\* C25: the status 'processing' is entered only from 'uploading' and the
\* status 'completed' only from 'processing': no step goes from idle to
\* processing, from idle to completed or from error to completed.
C25_LifecycleOrder ==
    [][/\ (/\ generationState'.status = "processing"
            /\ generationState.status # "processing")
              => generationState.status = "uploading"
       /\ (/\ generationState'.status = "completed"
            /\ generationState.status # "completed")
              => generationState.status = "processing"
      ]_vars

\* C26: the job id is absent until the current request's submission has
\* succeeded: id is null whenever the status is 'idle' or 'uploading', and a
\* failed submission leaves id null.
C26_IdOnlyAfterAcceptance ==
    /\ [](generationState.status \in {"idle", "uploading"}
              => generationState.id = NULL)
    /\ [][\A s \in submits :
              submitFailed(s) => generationState'.id = NULL]_vars

\* C27: a provider submission that fails while the status is 'uploading'
\* makes the status 'error' with the error 'Failed to start generation',
\* assigns no job id, and starts no poller, no timer and no status query.
C27_SubmitFailureSurfaced ==
    [][\A s \in submits :
          (generationState.status = "uploading" /\ submitFailed(s))
              => /\ generationState'.status = "error"
                 /\ generationState'.error = "Failed to start generation"
                 /\ generationState'.id = generationState.id
                 /\ generationState'.result = generationState.result
                 /\ pollerId' = pollerId
                 /\ ~pollInterval'
                 /\ ~timeout'
                 /\ polls' = polls]_vars

\* C27 witness: the first submission of the session failed
C27_Witness ==
    /\ generationState.status = "error"
    /\ generationState.error = StartFailedMsg
    /\ generationState.id = NULL
    /\ pollerId = 0
    /\ submits = {}
    /\ ~pollInterval

\* C28: a poll response whose status is neither 'completed' nor 'failed'
\* ('processing', or a value outside the documented vocabulary) leaves the
\* generation state unchanged, calls neither onComplete nor onError and
\* clears no timer: the poller keeps running.
C28_NonTerminalStatusIgnored ==
    [][\A q \in polls, status \in {"processing", "queued"} :
          pollResponse(q, status, "")
              => /\ generationState' = generationState
                 /\ terminalCalls' = terminalCalls
                 /\ pollerId' = pollerId
                 /\ pollInterval' = pollInterval
                 /\ timeout' = timeout
                 /\ elapsed' = elapsed]_vars

\* C28 witness: the running poller's latest response carried a status
\* outside the documented vocabulary and the poller is still running
C28_Witness ==
    /\ lastPoll = "queued"
    /\ generationState.status = "processing"
    /\ pollInterval
    /\ timeout
    /\ terminalCalls[pollerId] = 0

\* C29: the request's progress stays within 0..100, is 100 whenever the
\* status is 'completed', never decreases in a step taken from a state that
\* is not terminal, and is left unchanged by the step into the 'error'
\* status.
C29_ProgressMonotone ==
    /\ [](/\ generationState.progress >= 0
          /\ generationState.progress <= 100
          /\ generationState.status = "completed"
                 => generationState.progress = 100)
    /\ [][/\ generationState.status \notin {"completed", "error"}
              => generationState'.progress >= generationState.progress
          /\ (/\ generationState'.status = "error"
              /\ generationState.status # "error")
              => generationState'.progress = generationState.progress
          ]_vars

\* a GenerationProgress instance is on the page
Displayed == generationState.status \in {"uploading", "processing"} /\ ~crashed

\* C30: the simulated progress of a mounted GenerationProgress is 10 while
\* uploading and 20 on entering processing; a one-second tick adds an
\* increment in [0,10), and only while the value is below 90; the value
\* never decreases while the instance stays mounted, is below 100 while
\* mounted and never exceeds 100.
C30_SimulatedProgressMonotone ==
    /\ [](/\ currentProgress >= 0
          /\ currentProgress <= 100
          /\ Displayed => currentProgress < 100
          /\ (Displayed /\ generationState.status = "uploading")
                 => currentProgress = 10
          /\ (Displayed /\ generationState.status = "processing")
                 => currentProgress >= 20)
    /\ [][/\ (/\ generationState.status # "processing"
              /\ generationState'.status = "processing")
              => currentProgress' = 20
          /\ \A random \in Randoms :
                progressTick(random)
                    => /\ currentProgress' - currentProgress \in 0..9
                       /\ currentProgress >= 90
                              => currentProgress' = currentProgress
          /\ (Displayed /\ Displayed')
              => currentProgress' >= currentProgress
          ]_vars

\* C31: the catalog request is issued once, on mount, and settles once; a
\* failed fetch installs the fallback list in that one step and is not
\* retried: once loading has finished no fetch settles any more and the
\* active list (with the loading flag and the error) never changes again.
C31_FetchedOnceNoRetry ==
    [][/\ \A response \in CatalogResponses :
             fetchCharacters(response) => loading /\ ~loading'
       /\ \A response \in CatalogResponses :
             (FetchFailure(response) /\ fetchCharacters(response))
                 => /\ characters # Array(DefaultCharacters)
                    /\ characters' = Array(DefaultCharacters)
       /\ ~loading
             => /\ characters' = characters
                /\ loading' = loading
                /\ characterError' = characterError
      ]_vars

\* C32: once a failed fetch has made the fallback list the active one and
\* loading has finished, every character of the fallback list other than
\* the selected one can be selected, unless a processing job disables the
\* selection.
C32_FallbackSelectable ==
    (/\ ~loading
     /\ characters = Array(DefaultCharacters)
     /\ generationState.status # "processing")
        => \A c \in Ids(Array(DefaultCharacters)) \ {selectedCharacter} :
              ENABLED selectCharacter(c)

\* C33 (as claimed): whenever the status is 'completed' or 'error', no
\* uploaded image is retained.
C33_ImageDiscardedWhenTerminal ==
    generationState.status \in {"completed", "error"} => uploadedImage = NULL

\* C33 (amended): the uploaded image outlives the request: the step into
\* 'completed' or 'error' leaves it unchanged (the result view shows it as
\* the original image), reset discards it, and no uploaded image is
\* retained whenever the status is 'idle'.
C33_ImageDiscardedByReset ==
    /\ [](generationState.status = "idle" => uploadedImage = NULL)
    /\ [][/\ (/\ generationState'.status \in {"completed", "error"}
              /\ generationState.status \notin {"completed", "error"})
              => uploadedImage' = uploadedImage
          /\ resetGeneration => uploadedImage' = NULL
          ]_vars

\* C33 witness: a request completed and its uploaded image is still held
C33_Witness ==
    /\ generationState.status = "completed"
    /\ uploadedImage # NULL
    /\ uploadedImage = preview

\* C34: while the status is 'processing' no call of handleImageUpload
\* begins and the selected character does not change, in whatever order
\* files are picked, reads complete and submissions are accepted.
C34_DisabledWhileProcessing ==
    [][generationState.status = "processing"
          => /\ \A r \in reads : ~handleImageUpload(r)
             /\ selectedCharacter' = selectedCharacter]_vars

\* C35: the character reported with a completed result (the selected
\* character, which the result view shows) is the character that was sent in
\* the submission behind the job the state holds, and it does not change
\* while the result is shown.
C35_ReportedCharacterIsSubmitted ==
    /\ []((/\ generationState.status = "completed"
           /\ generationState.result \notin {UNDEF, NULL, ""})
              => selectedCharacter = submittedCharacter)
    /\ [][(/\ generationState.status = "completed"
           /\ generationState'.status = "completed")
              => selectedCharacter' = selectedCharacter]_vars

\* C36: a 'completed' response without a result reference (result_url
\* missing or empty) still ends the request in 'completed', with the fixed
\* placeholder URL as its result and no error recorded by that step.
C36_CompletedWithoutResultUsesPlaceholder ==
    [][\A q \in polls :
          pollResponse(q, "completed", "")
              => /\ generationState'.status = "completed"
                 /\ generationState'.result =
                        "https://via.placeholder.com/512x512/3b82f6/ffffff?text=Cosplay+Image"
                 /\ generationState'.progress = 100
                 /\ generationState'.error = generationState.error]_vars

\* C36 witness: the running poller's only terminal answer was a 'completed'
\* without result_url, and the request shows the placeholder and no error
C36_Witness ==
    /\ generationState.status = "completed"
    /\ generationState.result = Placeholder
    /\ generationState.error = UNDEF
    /\ generationState.progress = 100
    /\ pollerId >= 1
    /\ terminalCalls[pollerId] = 1

====
